---------------------------- MODULE Spec2Model ----------------------------
(***************************************************************************)
(* Ingestion orchestrator (pke/ingestion/orchestrator.py) run against a   *)
(* persistence client: the recording MockSupabaseClient                   *)
(* (tests/fixtures/mock_supabase.py) or a SupabaseClient wrapper that has *)
(* no backend client configured (pke/supabase_client.py, from_env).       *)
(* ClientSpec calls the operations of the two client classes directly,    *)
(* the SupabaseClient in each configuration its constructor can produce.  *)
(* ResolverSpec applies the tag resolver to batches of raw tag lists.     *)
(*                                                                         *)
(* Strings whose characters matter (bodies, raw tags) are sequences of    *)
(* one-character strings; identifiers and labels are TLA+ strings.        *)
(***************************************************************************)
EXTENDS Integers, Sequences, FiniteSets, TLC

\* ------------------------------------------------------------------------
\* Bounds
\* ------------------------------------------------------------------------
MaxNotes == 2     \* longest batch drawn from NotePool
MaxRuns == 2      \* invocations of ingest_notes on one client
MaxFaults == 2    \* calls of the client or the embedding provider that raise

\* ------------------------------------------------------------------------
\* Python values
\* ------------------------------------------------------------------------
None == "None"            \* Python None where a str is expected
Missing == "<missing>"    \* a key that the note dict does not have
NoneTag == <<"None">>     \* Python None inside a tags list

Truthy(s) == s # None /\ s # Missing /\ s # ""
TruthyChars(s) == s # NoneTag /\ Len(s) > 0

RECURSIVE LStrip(_)
LStrip(s) == IF s = <<>> THEN <<>>
             ELSE IF Head(s) = " " THEN LStrip(Tail(s)) ELSE s

RECURSIVE RStrip(_)
RStrip(s) == IF s = <<>> THEN <<>>
             ELSE IF s[Len(s)] = " " THEN RStrip(SubSeq(s, 1, Len(s) - 1)) ELSE s

\* str.strip()
Strip(s) == RStrip(LStrip(s))

\* str.replace(" ", "_")
ReplaceSpace(s) == [k \in DOMAIN s |-> IF s[k] = " " THEN "_" ELSE s[k]]

\* dict assignment d[k] = v
Put(d, k, v) == [x \in (DOMAIN d) \cup {k} |-> IF x = k THEN v ELSE d[x]]

EmptyDict == <<>>

\* dict.get(k, default)
Get(d, k, default) == IF k \in DOMAIN d THEN d[k] ELSE default

Range(s) == {s[k] : k \in DOMAIN s}

\* ------------------------------------------------------------------------
\* Input batches
\* ------------------------------------------------------------------------
Note(id, body, notebook, tags) ==
    [id |-> id, body |-> body, notebook |-> notebook, tags |-> tags,
     metadata_notebook |-> Missing]

\* a note whose "metadata" dict carries a "notebook" entry
NoteWithMetadata(id, body, notebook, tags, metadata_notebook) ==
    [Note(id, body, notebook, tags) EXCEPT !.metadata_notebook = metadata_notebook]

\* Notes the batches are drawn from: a tag written twice (" a", "a"), a
\* whitespace-only body on a note labelled both directly and in its
\* metadata, an empty body whose tag occurs on no other note, a note
\* without an id, and a second note with the id of the first that has no
\* tags and is labelled in its metadata only.
NotePool ==
    { Note("n1", <<"x">>, "Work", << <<" ", "a">>, <<"a">> >>),
      Note("n2", <<"y">>, "Personal", << <<"b">>, NoneTag >>),
      NoteWithMetadata("n3", <<" ">>, "Work", << <<"a", " ">> >>, "Personal"),
      Note("n2", <<>>, "Work", << <<"c">> >>),
      Note(Missing, <<"x">>, None, << <<>>, <<"b">> >>),
      NoteWithMetadata("n1", <<"z">>, None, <<>>, "Personal") }

\* The three-note scenario of the end-to-end test, with its skipped note.
Scenario ==
    << Note("n1", <<"x">>, "Work", << <<"t", "1">>, <<"t", "2">> >>),
       Note("n2", <<"y">>, "Personal", << <<"t", "2">> >>),
       Note("n3", <<>>, "Work", << <<"s", "k", "i", "p">> >>) >>

Batches == UNION {[1..n -> NotePool] : n \in 0..MaxNotes} \cup {Scenario}

\* ------------------------------------------------------------------------
\* Tag resolver (pke/ingestion/tag_resolution.py)
\* ------------------------------------------------------------------------
\* variant: the kept tags are not stripped
NormalizedTagsOf_unstripped(note) ==
    {note.tags[k] :
        k \in {j \in DOMAIN note.tags :
                 TruthyChars(note.tags[j]) /\ Strip(note.tags[j]) # <<>>}}

NormalizedTagsOf(note) ==
    {Strip(note.tags[k]) :
        k \in {j \in DOMAIN note.tags :
                 TruthyChars(note.tags[j]) /\ Strip(note.tags[j]) # <<>>}}

\* variant: the tags of notes that will be skipped are left out
extract_all_tags_of_kept_notes(notes) ==
    UNION {NormalizedTagsOf(notes[k]) : k \in {j \in DOMAIN notes : notes[j].body # <<>>}}

extract_all_tags(notes) == UNION {NormalizedTagsOf(notes[k]) : k \in DOMAIN notes}

RECURSIVE TagIdsOf(_, _)
TagIdsOf(raw_tag_names, tag_id_map) ==
    IF raw_tag_names = <<>> THEN <<>>
    ELSE LET name == Head(raw_tag_names)
             rest == TagIdsOf(Tail(raw_tag_names), tag_id_map)
         IN IF ~TruthyChars(name) THEN rest
            ELSE IF Strip(name) = <<>> THEN rest
            ELSE IF Strip(name) \in DOMAIN tag_id_map
                 THEN <<tag_id_map[Strip(name)]>> \o rest
                 ELSE rest

RECURSIVE MapFrom(_, _, _, _)
MapFrom(notes, k, tag_id_map, acc) ==
    IF k > Len(notes) THEN acc
    ELSE LET note == notes[k]
             tag_ids == TagIdsOf(note.tags, tag_id_map)
         IN IF ~Truthy(note.id) THEN MapFrom(notes, k + 1, tag_id_map, acc)
            ELSE IF tag_ids # <<>>
                 THEN MapFrom(notes, k + 1, tag_id_map, Put(acc, note.id, tag_ids))
                 ELSE MapFrom(notes, k + 1, tag_id_map, acc)

map_note_tags_to_ids(notes, tag_id_map) == MapFrom(notes, 1, tag_id_map, EmptyDict)

\* ------------------------------------------------------------------------
\* Orchestrator helpers
\* ------------------------------------------------------------------------
\* variant: the notes that will be skipped are left out of the map
RECURSIVE NotebookTitles_of_kept_notes(_, _, _)
NotebookTitles_of_kept_notes(notes, k, acc) ==
    IF k > Len(notes) THEN acc
    ELSE LET nb == notes[k].notebook
         IN IF notes[k].body # <<>> /\ Truthy(nb) /\ nb \notin Range(acc)
            THEN NotebookTitles_of_kept_notes(notes, k + 1, Append(acc, nb))
            ELSE NotebookTitles_of_kept_notes(notes, k + 1, acc)

\* notebook_map of ingest_notes: the keys, in insertion order
RECURSIVE NotebookTitles(_, _, _)
NotebookTitles(notes, k, acc) ==
    IF k > Len(notes) THEN acc
    ELSE LET nb == notes[k].notebook
         IN IF Truthy(nb) /\ nb \notin Range(acc)
            THEN NotebookTitles(notes, k + 1, Append(acc, nb))
            ELSE NotebookTitles(notes, k + 1, acc)

\* variant: the titles are put in alphabetical order
notebook_map_alphabetical(notes) ==
    SelectSeq(<<"Personal", "Work">>,
              LAMBDA t : t \in Range(NotebookTitles(notes, 1, <<>>)))

notebook_map(notes) == NotebookTitles(notes, 1, <<>>)

\* ------------------------------------------------------------------------
\* Notebook resolver (pke/ingestion/notebook_resolution.py)
\* ------------------------------------------------------------------------
\* note.get("notebook") or note.get("metadata", {}).get("notebook")
NotebookLabel(note) ==
    IF Truthy(note.notebook) THEN note.notebook
    ELSE IF note.metadata_notebook = Missing THEN None
    ELSE note.metadata_notebook

RECURSIVE ResolvedTitles(_, _, _)
ResolvedTitles(notes, k, acc) ==
    IF k > Len(notes) THEN acc
    ELSE LET nb == NotebookLabel(notes[k])
         IN IF Truthy(nb) /\ nb \notin Range(acc)
            THEN ResolvedTitles(notes, k + 1, Append(acc, nb))
            ELSE ResolvedTitles(notes, k + 1, acc)

\* the keys of the returned dict, in insertion order
resolve_notebook_ids(notes) == ResolvedTitles(notes, 1, <<>>)

\* variant: the skip check is missing
IsSkipped_never(note) == FALSE

\* "if not note.get('body')": the note is skipped
IsSkipped(note) == Len(note.body) = 0

\* note.get("id")
IdOrNone(note) == IF note.id = Missing THEN None ELSE note.id

IngestionReport ==
    [notes_processed |-> 0, notes_inserted |-> 0, notes_updated |-> 0,
     notes_skipped |-> 0, tags_inserted |-> 0, relationships_created |-> 0,
     failures |-> <<>>]

\* the except clause of the per-note loop
RecordFailure(rep, note, msg) ==
    [rep EXCEPT !.failures = Append(@, [id |-> IdOrNone(note), error |-> msg])]

\* branch on the result of upsert_note_with_embedding
CountResult(rep, result) ==
    IF result = "inserted" THEN [rep EXCEPT !.notes_inserted = @ + 1]
    ELSE IF result = "updated" THEN [rep EXCEPT !.notes_updated = @ + 1]
    ELSE [rep EXCEPT !.notes_inserted = @ + 1]

\* ------------------------------------------------------------------------
\* MockSupabaseClient (tests/fixtures/mock_supabase.py)
\* ------------------------------------------------------------------------
NbIds == <<"nb1", "nb2", "nb3">>

RECURSIVE MockAssignNotebooks(_, _, _)
MockAssignNotebooks(upserts, ordered_titles, k) ==
    IF k > Len(ordered_titles) THEN upserts
    ELSE MockAssignNotebooks(Put(upserts, ordered_titles[k], NbIds[k]),
                             ordered_titles, k + 1)

\* returns the client's accumulated title -> id dict
Mock_upsert_notebooks(upserts, ordered_titles) ==
    MockAssignNotebooks(upserts, ordered_titles, 1)

UuidTag(tag) == <<"uuid-tag-">> \o ReplaceSpace(tag)

\* returns the client's accumulated name -> id dict
Mock_upsert_tags(upserts, tags) ==
    [t \in (DOMAIN upserts) \cup tags |->
        IF t \in DOMAIN upserts THEN upserts[t] ELSE UuidTag(t)]

\* variant: every write is reported as an insert
Mock_result_always_inserted(ids, id) == "inserted"

Mock_result(ids, id) == IF id \in ids THEN "updated" ELSE "inserted"

RECURSIVE PairsOf(_, _)
PairsOf(note_id, tag_ids) ==
    IF tag_ids = <<>> THEN <<>>
    ELSE <<[note_id |-> note_id, tag_id |-> Head(tag_ids)]>>
         \o PairsOf(note_id, Tail(tag_ids))


\* ------------------------------------------------------------------------
\* SupabaseClient built by from_env(): dry_run = False, client = None
\* (pke/supabase_client.py).  _require_client raises RuntimeError.
\* ------------------------------------------------------------------------
NotConfigured == "Supabase client is not configured"
NoEmbeddingClient == "'SupabaseClient' object has no attribute 'embedding_client'"
ClientRequired == "SupabaseClient is required when dry_run=False"
BackendError == "Supabase error"
EmbeddingError == "embedding failed"
KeyErrorId == "'id'"

\* upsert_notebooks: an empty map returns {} before the client is required
Supabase_upsert_notebooks_raises(ordered_titles) == ordered_titles # <<>>

\* upsert_tags: an empty collection returns {} before the client is required
Supabase_upsert_tags_raises(tags) == tags # {}

\* ------------------------------------------------------------------------
\* State
\* ------------------------------------------------------------------------
VARIABLES
    parsed_notes,      \* the batch handed to every invocation
    theClient,         \* the client object the caller owns: "mock" | "supabase"
    faultsLeft,        \* calls that may still raise
    existing_ids,      \* MockSupabaseClient.existing_ids
    note_upserts,      \* MockSupabaseClient.note_upserts
    notebook_upserts,  \* MockSupabaseClient.notebook_upserts
    tag_upserts,       \* MockSupabaseClient.tag_upserts
    relationships,     \* MockSupabaseClient.relationships
    runs,              \* invocations of ingest_notes started so far
    pc,                \* position inside ingest_notes
    dry_run,           \* argument dry_run
    client,            \* argument client: "none" or theClient
    idx,               \* position of the per-note loop (1-based)
    report,            \* the IngestionReport of the invocation
    notebook_id_map,   \* result of client.upsert_notebooks
    tag_id_map,        \* result of client.upsert_tags
    note_tag_map,      \* result of map_note_tags_to_ids
    calls,             \* client calls made by the invocation, in order
    raisedAt,          \* exceptions raised inside the per-note loop, in order
    embeds,            \* embedding_client.generate calls of the invocation
    fresh,             \* the store was empty when the invocation started
    prev,              \* outcome of the previous invocation
    sb_dry_run,        \* SupabaseClient.dry_run
    sb_client,         \* SupabaseClient.client: the backend client, or "None"
    nops,              \* client operations called directly so far
    last,              \* the last client operation called directly
    notebooks_rows     \* rows of the backend's "notebooks" table, oldest first

store == <<existing_ids, note_upserts, notebook_upserts, tag_upserts, relationships>>
inputs == <<parsed_notes, theClient>>
local == <<dry_run, client, idx, report, notebook_id_map, tag_id_map, note_tag_map>>
history == <<calls, raisedAt, embeds, fresh, prev>>
wrapper == <<sb_dry_run, sb_client, nops, last, notebooks_rows>>
vars == <<inputs, faultsLeft, store, runs, pc, local, history, wrapper>>

StoreEmpty ==
    /\ existing_ids = {}
    /\ note_upserts = <<>>
    /\ notebook_upserts = EmptyDict
    /\ tag_upserts = EmptyDict
    /\ relationships = <<>>

NoPrev ==
    [outcome |-> "none", dry_run |-> FALSE, client |-> "none", fresh |-> FALSE,
     raised |-> 0, report |-> IngestionReport,
     notebook_id_map |-> EmptyDict, tag_id_map |-> EmptyDict]

\* no client operation has been called directly
NoOp == [op |-> "none"]

Call(op, i, note_id, nb, tag_ids, raised) ==
    [op |-> op, i |-> i, note_id |-> note_id, notebook_id |-> nb,
     tag_ids |-> tag_ids, raised |-> raised]

Init ==
    /\ parsed_notes \in Batches
    /\ theClient \in {"mock", "supabase"}
    /\ faultsLeft = MaxFaults
    /\ existing_ids = {}
    /\ note_upserts = <<>>
    /\ notebook_upserts = EmptyDict
    /\ tag_upserts = EmptyDict
    /\ relationships = <<>>
    /\ runs = 0
    /\ pc = "idle"
    /\ dry_run = FALSE
    /\ client = "none"
    /\ idx = 0
    /\ report = IngestionReport
    /\ notebook_id_map = EmptyDict
    /\ tag_id_map = EmptyDict
    /\ note_tag_map = EmptyDict
    /\ calls = <<>>
    /\ raisedAt = <<>>
    /\ embeds = 0
    /\ fresh = TRUE
    /\ prev = NoPrev
    /\ sb_dry_run = FALSE
    /\ sb_client = None
    /\ nops = 0
    /\ last = NoOp
    /\ notebooks_rows = <<>>

\* A call of the mock-backed client or of its embedding provider may raise
\* while the fault budget lasts.
Faults == IF client = "mock" /\ faultsLeft > 0 THEN {TRUE, FALSE} ELSE {FALSE}

UseFault(f) == faultsLeft' = IF f THEN faultsLeft - 1 ELSE faultsLeft

Finished == pc \in {"returned", "raised"}

\* ------------------------------------------------------------------------
\* ingest_notes is called: report = IngestionReport()
\* ------------------------------------------------------------------------
Invoke ==
    /\ pc = "idle" \/ Finished \/ pc = "interrupted"
    /\ runs < MaxRuns
    /\ runs' = runs + 1
    /\ \E d \in BOOLEAN, c \in {"none", theClient} :
          /\ dry_run' = d
          /\ client' = c
    /\ prev' = IF pc = "idle" THEN NoPrev
               ELSE [outcome |-> pc, dry_run |-> dry_run, client |-> client,
                     fresh |-> fresh, raised |-> Len(raisedAt), report |-> report,
                     notebook_id_map |-> notebook_id_map, tag_id_map |-> tag_id_map]
    /\ fresh' = StoreEmpty
    /\ report' = IngestionReport
    /\ idx' = 0
    /\ notebook_id_map' = EmptyDict
    /\ tag_id_map' = EmptyDict
    /\ note_tag_map' = EmptyDict
    /\ calls' = <<>>
    /\ raisedAt' = <<>>
    /\ embeds' = 0
    /\ pc' = "entered"
    /\ UNCHANGED <<inputs, wrapper, faultsLeft, store>>

\* ------------------------------------------------------------------------
\* Dry-run path
\* ------------------------------------------------------------------------
\* embedding client selection: client.embedding_client or the deterministic one
DrySelectEmbedding ==
    /\ pc = "entered" /\ dry_run
    /\ IF client = "supabase"
       THEN pc' = "raised" /\ idx' = idx
       ELSE pc' = "dry_loop" /\ idx' = 1
    /\ UNCHANGED <<inputs, wrapper, faultsLeft, store, runs, dry_run, client, report,
                   notebook_id_map, tag_id_map, note_tag_map, history>>

\* variant: the dry-run loop records the failure and goes on
Uncaught_isolated(rep, stage, msg) ==
    /\ report' = RecordFailure(rep, parsed_notes[idx], msg)
    /\ raisedAt' = Append(raisedAt, [i |-> idx, stage |-> stage, error |-> msg])
    /\ idx' = idx + 1
    /\ pc' = "dry_loop"

\* The dry-run loop has no try/except: the exception raised at this stage of
\* the note leaves ingest_notes.
Uncaught(rep, stage, msg) ==
    /\ report' = rep
    /\ raisedAt' = Append(raisedAt, [i |-> idx, stage |-> stage, error |-> msg])
    /\ idx' = idx
    /\ pc' = "raised"

\* variant: the dry-run path branches on the client's result like the real path
DryCount_by_result(rep, result) == CountResult(rep, result)

\* "Dry-run treats all valid notes as inserted": the value returned by
\* client.upsert_note_with_embedding is not looked at
DryCount(rep, result) == [rep EXCEPT !.notes_inserted = @ + 1]

\* one iteration of "Stage 1: Note simulation"
DryNote ==
    /\ pc = "dry_loop" /\ idx <= Len(parsed_notes)
    /\ LET note == parsed_notes[idx]
           counted == [report EXCEPT !.notes_processed = @ + 1]
       IN IF IsSkipped(note)
          THEN /\ report' = [counted EXCEPT !.notes_skipped = @ + 1]
               /\ idx' = idx + 1
               /\ pc' = pc
               /\ UNCHANGED <<faultsLeft, store, calls, embeds, raisedAt>>
          ELSE \/ \* embedding_client.generate raises
                  /\ TRUE \in Faults
                  /\ UseFault(TRUE)
                  /\ Uncaught(counted, "embedding", EmbeddingError)
                  /\ embeds' = embeds + 1
                  /\ UNCHANGED <<store, calls>>
               \/ \* note["id"] raises KeyError
                  /\ note.id = Missing
                  /\ Uncaught(counted, "id", KeyErrorId)
                  /\ embeds' = embeds + 1
                  /\ UNCHANGED <<faultsLeft, store, calls>>
               \/ \* no client: the record is only built
                  /\ note.id # Missing /\ client = "none"
                  /\ report' = DryCount(counted, None)
                  /\ idx' = idx + 1
                  /\ pc' = pc
                  /\ embeds' = embeds + 1
                  /\ UNCHANGED <<faultsLeft, store, calls, raisedAt>>
               \/ \* the record is forwarded to client.upsert_note_with_embedding
                  /\ note.id # Missing /\ client = "mock"
                  /\ embeds' = embeds + 1
                  /\ \E f \in Faults :
                        /\ UseFault(f)
                        /\ calls' = Append(calls,
                              Call("upsert_note_with_embedding", idx, note.id,
                                   note.notebook, <<>>, f))
                        /\ IF f
                           THEN /\ Uncaught(counted, "upsert", BackendError)
                                /\ UNCHANGED store
                           ELSE /\ note_upserts' = Append(note_upserts,
                                      [id |-> note.id, notebook_id |-> note.notebook])
                                /\ existing_ids' = existing_ids \cup {note.id}
                                /\ report' = DryCount(counted,
                                                 Mock_result(existing_ids, note.id))
                                /\ idx' = idx + 1
                                /\ pc' = pc
                                /\ UNCHANGED <<notebook_upserts, tag_upserts,
                                               relationships, raisedAt>>
    /\ UNCHANGED <<inputs, wrapper, runs, dry_run, client, notebook_id_map, tag_id_map,
                   note_tag_map, fresh, prev>>

\* variant: the raw tags of notes with an empty body are not counted
RECURSIVE RawTagCount_of_kept_notes(_, _)
RawTagCount_of_kept_notes(notes, k) ==
    IF k > Len(notes) THEN 0
    ELSE (IF notes[k].body # <<>> THEN Len(notes[k].tags) ELSE 0)
         + RawTagCount_of_kept_notes(notes, k + 1)

\* "for note in parsed_notes: relationships_created += len(note.get("tags", []))"
RECURSIVE RawTagCount(_, _)
RawTagCount(notes, k) ==
    IF k > Len(notes) THEN 0 ELSE Len(notes[k].tags) + RawTagCount(notes, k + 1)

\* variant: the raw tags are counted without normalising them
DryTagsInserted_raw(notes) == RawTagCount(notes, 1)

\* report.tags_inserted of the dry-run path
DryTagsInserted(notes) == Cardinality(extract_all_tags(notes))

\* "Stage 2: Tag simulation", "Stage 3: Relationship simulation", return
DryFinish ==
    /\ pc = "dry_loop" /\ idx > Len(parsed_notes)
    /\ report' = [report EXCEPT
                    !.tags_inserted = DryTagsInserted(parsed_notes),
                    !.relationships_created = @ + RawTagCount(parsed_notes, 1)]
    /\ pc' = "returned"
    /\ UNCHANGED <<inputs, wrapper, faultsLeft, store, runs, dry_run, client, idx,
                   notebook_id_map, tag_id_map, note_tag_map, history>>

\* ------------------------------------------------------------------------
\* Real path
\* ------------------------------------------------------------------------
\* variant: the exception of a batch-level call is swallowed
Propagate_swallowed(raises, next) == next

\* No try/except surrounds the batch-level calls: an exception leaves
\* ingest_notes, otherwise the next stage follows.
Propagate(raises, next) == IF raises THEN "raised" ELSE next

\* "if client is None: raise ValueError"
RequireClient ==
    /\ pc = "entered" /\ ~dry_run
    /\ pc' = IF client = "none" THEN "raised" ELSE "notebooks"
    /\ UNCHANGED <<inputs, wrapper, faultsLeft, store, runs, local, history>>

\* 1. notebook_map is built and client.upsert_notebooks is called once
UpsertNotebooks ==
    /\ pc = "notebooks"
    /\ LET titles == notebook_map(parsed_notes)
       IN \E f \in Faults :
            LET raises == IF client = "supabase"
                          THEN Supabase_upsert_notebooks_raises(titles)
                          ELSE f
            IN /\ UseFault(f)
               /\ calls' = Append(calls,
                     Call("upsert_notebooks", 0, None, None, <<>>, raises))
               /\ pc' = Propagate(raises, "tags")
               /\ IF raises
                  THEN UNCHANGED <<notebook_upserts, notebook_id_map>>
                  ELSE /\ IF client = "mock"
                          THEN /\ notebook_upserts' =
                                     Mock_upsert_notebooks(notebook_upserts, titles)
                               /\ notebook_id_map' = notebook_upserts'
                          ELSE /\ notebook_id_map' = EmptyDict
                               /\ UNCHANGED notebook_upserts
    /\ UNCHANGED <<inputs, wrapper, existing_ids, note_upserts, tag_upserts, relationships,
                   runs, dry_run, client, idx, report, tag_id_map, note_tag_map,
                   raisedAt, embeds, fresh, prev>>

\* 2. extract_all_tags, client.upsert_tags once, then map_note_tags_to_ids
UpsertTags ==
    /\ pc = "tags"
    /\ LET all_tags == extract_all_tags(parsed_notes)
       IN \E f \in Faults :
            LET raises == IF client = "supabase"
                          THEN Supabase_upsert_tags_raises(all_tags)
                          ELSE f
            IN /\ UseFault(f)
               /\ calls' = Append(calls,
                     Call("upsert_tags", 0, None, None, <<>>, raises))
               /\ pc' = Propagate(raises, "loop")
               /\ IF raises
                  THEN UNCHANGED <<tag_upserts, tag_id_map, note_tag_map,
                                   report, idx>>
                  ELSE /\ idx' = 1
                       /\ IF client = "mock"
                          THEN /\ tag_upserts' = Mock_upsert_tags(tag_upserts, all_tags)
                               /\ tag_id_map' = tag_upserts'
                          ELSE /\ tag_id_map' = EmptyDict
                               /\ UNCHANGED tag_upserts
                       /\ report' = [report EXCEPT
                                       !.tags_inserted = Cardinality(DOMAIN tag_id_map')]
                       /\ note_tag_map' = map_note_tags_to_ids(parsed_notes, tag_id_map')
    /\ UNCHANGED <<inputs, wrapper, existing_ids, note_upserts, notebook_upserts,
                   relationships, runs, dry_run, client, notebook_id_map,
                   raisedAt, embeds, fresh, prev>>

\* variant: the exception leaves ingest_notes
Caught_reraised(rep, stage, msg) ==
    /\ report' = rep
    /\ raisedAt' = Append(raisedAt, [i |-> idx, stage |-> stage, error |-> msg])
    /\ idx' = idx
    /\ pc' = "raised"

\* variant: the relationship call is made although the note upsert raised
Caught_then_relationships(rep, stage, msg) ==
    /\ report' = RecordFailure(rep, parsed_notes[idx], msg)
    /\ raisedAt' = Append(raisedAt, [i |-> idx, stage |-> stage, error |-> msg])
    /\ idx' = IF stage = "upsert" THEN idx ELSE idx + 1
    /\ pc' = IF stage = "upsert" THEN "relationships" ELSE "loop"

\* variant: a failure of the relationship call is not recorded
Caught_unless_counted(rep, stage, msg) ==
    /\ report' = IF stage = "relationships" THEN rep
                  ELSE RecordFailure(rep, parsed_notes[idx], msg)
    /\ raisedAt' = Append(raisedAt, [i |-> idx, stage |-> stage, error |-> msg])
    /\ idx' = idx + 1
    /\ pc' = "loop"

\* The exception raised at this stage of the note is caught by the except
\* clause of the loop: the failure is recorded and the loop goes on.
Caught(rep, stage, msg) ==
    /\ report' = RecordFailure(rep, parsed_notes[idx], msg)
    /\ raisedAt' = Append(raisedAt, [i |-> idx, stage |-> stage, error |-> msg])
    /\ idx' = idx + 1
    /\ pc' = "loop"

\* 3. start of an iteration: count, skip, resolve the notebook, embed
NoteBegin ==
    /\ pc = "loop" /\ idx <= Len(parsed_notes)
    /\ LET note == parsed_notes[idx]
           counted == [report EXCEPT !.notes_processed = @ + 1]
       IN IF IsSkipped(note)
          THEN /\ report' = [counted EXCEPT !.notes_skipped = @ + 1]
               /\ idx' = idx + 1
               /\ pc' = pc
               /\ UNCHANGED <<faultsLeft, raisedAt, embeds>>
          ELSE IF client = "supabase"
          THEN \* client.embedding_client raises AttributeError
               /\ Caught(counted, "embedding", NoEmbeddingClient)
               /\ UNCHANGED <<faultsLeft, embeds>>
          ELSE \E f \in Faults :
                 /\ UseFault(f)
                 /\ embeds' = embeds + 1
                 /\ IF f
                    THEN Caught(counted, "embedding", EmbeddingError)
                    ELSE /\ report' = counted
                         /\ pc' = "upsert"
                         /\ UNCHANGED <<idx, raisedAt>>
    /\ UNCHANGED <<inputs, wrapper, store, runs, dry_run, client, notebook_id_map,
                   tag_id_map, note_tag_map, calls, fresh, prev>>

\* notebook_id of the iteration
ResolveNotebookId(note, id_map) ==
    IF Truthy(note.notebook) THEN Get(id_map, note.notebook, None) ELSE None

\* client.upsert_note_with_embedding and the branch on its result
NoteUpsert ==
    /\ pc = "upsert"
    /\ LET note == parsed_notes[idx]
       IN IF note.id = Missing
          THEN \* note["id"] raises KeyError before the call is made
               /\ Caught(report, "id", KeyErrorId)
               /\ UNCHANGED <<faultsLeft, store, calls>>
          ELSE \E f \in Faults :
                 /\ UseFault(f)
                 /\ calls' = Append(calls,
                       Call("upsert_note_with_embedding", idx, note.id,
                            ResolveNotebookId(note, notebook_id_map), <<>>, f))
                 /\ IF f
                    THEN /\ Caught(report, "upsert", BackendError)
                         /\ UNCHANGED store
                    ELSE /\ note_upserts' = Append(note_upserts,
                               [id |-> note.id,
                                notebook_id |-> ResolveNotebookId(note, notebook_id_map)])
                         /\ existing_ids' = existing_ids \cup {note.id}
                         /\ report' = CountResult(report, Mock_result(existing_ids, note.id))
                         /\ pc' = "relationships"
                         /\ UNCHANGED <<idx, raisedAt, notebook_upserts, tag_upserts,
                                        relationships>>
    /\ UNCHANGED <<inputs, wrapper, runs, dry_run, client, notebook_id_map, tag_id_map,
                   note_tag_map, embeds, fresh, prev>>

\* client.upsert_note_tag_relationships for the note just upserted
NoteRelationships ==
    /\ pc = "relationships"
    /\ LET note == parsed_notes[idx]
           tag_ids == Get(note_tag_map, note.id, <<>>)
       IN \E f \in Faults :
            /\ UseFault(f)
            /\ calls' = Append(calls,
                  Call("upsert_note_tag_relationships", idx, note.id, None, tag_ids, f))
            /\ IF f
               THEN /\ Caught(report, "relationships", BackendError)
                    /\ UNCHANGED relationships
               ELSE /\ relationships' = relationships \o PairsOf(note.id, tag_ids)
                    /\ report' = [report EXCEPT
                                    !.relationships_created = @ + Len(tag_ids)]
                    /\ idx' = idx + 1
                    /\ pc' = "loop"
                    /\ UNCHANGED raisedAt
    /\ UNCHANGED <<inputs, wrapper, existing_ids, note_upserts, notebook_upserts, tag_upserts,
                   runs, dry_run, client, notebook_id_map, tag_id_map, note_tag_map,
                   embeds, fresh, prev>>

\* summary = report.to_summary_dict(); return summary
ReturnSummary ==
    /\ pc = "loop" /\ idx > Len(parsed_notes)
    /\ pc' = "returned"
    /\ UNCHANGED <<inputs, wrapper, faultsLeft, store, runs, local, history>>

\* The process running the real path is terminated by its caller between two
\* client calls; whatever the client has stored so far stays in the store.
Interrupt ==
    /\ ~dry_run
    /\ pc \in {"notebooks", "tags", "loop", "upsert", "relationships"}
    /\ pc' = "interrupted"
    /\ UNCHANGED <<inputs, wrapper, faultsLeft, store, runs, local, history>>

Next ==
    \/ Invoke
    \/ Interrupt
    \/ DrySelectEmbedding
    \/ DryNote
    \/ DryFinish
    \/ RequireClient
    \/ UpsertNotebooks
    \/ UpsertTags
    \/ NoteBegin
    \/ NoteUpsert
    \/ NoteRelationships
    \/ ReturnSummary

Spec == Init /\ [][Next]_vars

\* ------------------------------------------------------------------------
\* Backend responses seen by SupabaseClient (pke/types.py
\* SupabaseExecuteResponse, tests/dummy_supabase.py, the SDK's objects)
\* ------------------------------------------------------------------------
MaxOps == 2       \* client operations called directly in one behaviour

Absent == <<>>    \* the key or attribute is not there

\* shape: "dict" | "attr"; status, error: Absent or <<value>>;
\* data: "absent" | "none" | "list" | "row"; named: the rows carry "name"
Response(shape, status, error, data, named) ==
    [shape |-> shape, status |-> status, error |-> error, data |-> data,
     named |-> named]

NoResponse == Response("none", Absent, Absent, "absent", FALSE)

\* what a backend reached through the SDK may answer
Responses ==
    { Response("dict", <<200>>, Absent, "list", TRUE),
      Response("dict", <<200>>, Absent, "list", FALSE),
      Response("dict", <<200>>, Absent, "none", FALSE),
      Response("dict", <<200>>, <<None>>, "row", TRUE),
      Response("dict", <<500>>, Absent, "none", FALSE),
      Response("dict", Absent, <<"boom">>, "absent", FALSE),
      Response("dict", <<200>>, <<"boom">>, "list", TRUE),
      Response("attr", Absent, <<None>>, "list", TRUE),
      Response("attr", Absent, Absent, "row", TRUE),
      Response("attr", <<200>>, <<None>>, "none", FALSE),
      Response("attr", Absent, <<"boom">>, "none", FALSE),
      Response("attr", <<500>>, <<None>>, "none", FALSE) }

\* FailingExecutable.execute()
FailingResponse == Response("dict", <<500>>, Absent, "none", FALSE)

\* resp.get("status", 200)
StatusOf(resp) == IF resp.status = Absent THEN 200 ELSE resp.status[1]

\* "if error:" on getattr(resp, "error", None)
ErrorTruthy(resp) == resp.error # Absent /\ resp.error # <<None>>

\* _extract_data: raised, or the kind of value returned ("list", "none" for
\* None, "row" for a bare dict); empty tells whether a returned list is []
extract_data(resp) ==
    IF resp.shape = "dict"
    THEN IF StatusOf(resp) >= 400
         THEN [raised |-> TRUE, kind |-> "none", empty |-> TRUE]
         ELSE [raised |-> FALSE,
               kind |-> IF resp.data = "absent" THEN "list" ELSE resp.data,
               empty |-> resp.data = "absent"]
    ELSE IF ErrorTruthy(resp)
         THEN [raised |-> TRUE, kind |-> "none", empty |-> TRUE]
         ELSE [raised |-> FALSE, kind |-> "list",
               empty |-> resp.data \in {"absent", "none"}]

\* ------------------------------------------------------------------------
\* SupabaseClient (pke/supabase_client.py), called directly
\* ------------------------------------------------------------------------
BackendClients == {"DummyClient", "FailingClient", "Sdk"}

\* variant: an injected DummyClient is used as a real backend
SupabaseClient_init_dummy_is_real(client_arg, dry_run_arg) ==
    IF dry_run_arg THEN [dry_run |-> TRUE, client |-> None]
    ELSE [dry_run |-> FALSE, client |-> client_arg]

\* __init__(client, dry_run)
SupabaseClient_init(client_arg, dry_run_arg) ==
    IF dry_run_arg THEN [dry_run |-> TRUE, client |-> None]
    ELSE IF client_arg = None THEN [dry_run |-> FALSE, client |-> None]
    ELSE IF client_arg = "DummyClient" THEN [dry_run |-> TRUE, client |-> client_arg]
    ELSE [dry_run |-> FALSE, client |-> client_arg]

\* client.table(t).upsert(payload[, on_conflict=...]).execute()
Request(table, on_conflict, payload) ==
    [table |-> table, on_conflict |-> on_conflict, payload |-> payload]

\* FailingTable.upsert(record) takes no on_conflict keyword
CallRaisesTypeError == Response("TypeError", Absent, Absent, "absent", FALSE)

\* the in-memory backend of tests/test_notebook_resolution.py
FakeClient == "FakeClient"

\* FakeTable has select, eq, insert and execute, and no upsert
CallRaisesAttributeError == Response("AttributeError", Absent, Absent, "absent", FALSE)

\* what the backend client answers to an upsert
Replies(backend, on_conflict) ==
    IF backend = "FailingClient"
    THEN IF on_conflict = None THEN {FailingResponse} ELSE {CallRaisesTypeError}
    ELSE IF backend = FakeClient THEN {CallRaisesAttributeError}
    ELSE Responses

Args(titles, tags, id, body, tag_ids) ==
    [titles |-> titles, tags |-> tags, id |-> id, body |-> body,
     tag_ids |-> tag_ids]

Value(kind, map, status) == [kind |-> kind, map |-> map, status |-> status]

VNone == Value("None", EmptyDict, "")
VMap(m) == Value("map", m, "")
VStatus(st) == Value("status", EmptyDict, st)
\* what _extract_data returned, handed on unchanged
VData(x) == Value(IF x.kind = "none" THEN "None" ELSE x.kind, EmptyDict, "")

Outcome(op, args, raised, msg, value, requests, resp, existed) ==
    [op |-> op, args |-> args, raised |-> raised, msg |-> msg, value |-> value,
     requests |-> requests, resp |-> resp, existed |-> existed]

Returns(op, args, value, requests, resp) ==
    Outcome(op, args, "none", "", value, requests, resp, FALSE)

Raises(op, args, type, msg, requests, resp) ==
    Outcome(op, args, type, msg, VNone, requests, resp, FALSE)

NoClientProvided == "No client provided to SupabaseClient"
BodyRequired == "body must be provided"

\* the backend was called: the call itself raised, or _extract_data raised,
\* or the operation goes on with what _extract_data returned
AfterCall(op, args, req, resp, value) ==
    IF resp.shape = "TypeError"
    THEN Raises(op, args, "TypeError", "on_conflict", <<req>>, resp)
    ELSE IF resp.shape = "AttributeError"
    THEN Raises(op, args, "AttributeError", "upsert", <<>>, resp)
    ELSE IF extract_data(resp).raised
    THEN Raises(op, args, "RuntimeError", BackendError, <<req>>, resp)
    ELSE IF value.kind = "raise"
    THEN Raises(op, args, value.status, "", <<req>>, resp)
    ELSE Returns(op, args, value, <<req>>, resp)

SB_upsert_note_with_embedding(dry, backend, id, body, resp) ==
    LET op == "upsert_note_with_embedding"
        args == Args(<<>>, <<>>, id, body, <<>>)
    IN IF ~dry /\ backend = None
       THEN Raises(op, args, "RuntimeError", NoClientProvided, <<>>, NoResponse)
       ELSE IF body = <<>>
       THEN Raises(op, args, "ValueError", BodyRequired, <<>>, NoResponse)
       ELSE IF dry
       THEN Returns(op, args, Value("list", EmptyDict, ""), <<>>, NoResponse)
       ELSE AfterCall(op, args, Request("notes", None, <<id>>), resp,
                      VData(extract_data(resp)))

\* f"dry-notebook-{name}", f"dry-tag-{t}"
DryId(prefix, name) == <<prefix, name>>

\* row["id"] of the row the backend returns for a name
BackendId(name) == <<"id-of", name>>

\* {row["name"]: row["id"] for row in rows}; kind "raise" when building the
\* dict raises (rows is None or a bare dict: TypeError, no "name": KeyError)

MapOfRows(resp, names) ==
    LET x == extract_data(resp)
    IN IF x.raised THEN VNone
       ELSE IF x.kind \in {"none", "row"} THEN Value("raise", EmptyDict, "TypeError")
       ELSE IF x.empty THEN VMap(EmptyDict)
       ELSE IF ~resp.named THEN Value("raise", EmptyDict, "KeyError")
       ELSE VMap([n \in names |-> BackendId(n)])

SB_upsert_notebooks(dry, backend, titles, resp) ==
    LET op == "upsert_notebooks"
        args == Args(titles, <<>>, None, <<>>, <<>>)
    IN IF titles = <<>>
       THEN Returns(op, args, VMap(EmptyDict), <<>>, NoResponse)
       ELSE IF dry
       THEN Returns(op, args,
                    VMap([n \in Range(titles) |-> DryId("dry-notebook-", n)]),
                    <<>>, NoResponse)
       ELSE IF backend = None
       THEN Raises(op, args, "RuntimeError", NotConfigured, <<>>, NoResponse)
       ELSE AfterCall(op, args, Request("notebooks", "name", titles), resp,
                      MapOfRows(resp, Range(titles)))

SB_upsert_tags(dry, backend, tags, resp) ==
    LET op == "upsert_tags"
        args == Args(<<>>, tags, None, <<>>, <<>>)
        unique_tags == Range(tags)
    IN IF tags = <<>>
       THEN Returns(op, args, VMap(EmptyDict), <<>>, NoResponse)
       ELSE IF dry
       THEN Returns(op, args,
                    VMap([t \in unique_tags |-> DryId("dry-tag-", t)]),
                    <<>>, NoResponse)
       ELSE IF backend = None
       THEN Raises(op, args, "RuntimeError", NotConfigured, <<>>, NoResponse)
       ELSE AfterCall(op, args, Request("tags", "name", unique_tags), resp,
                      MapOfRows(resp, unique_tags))

SB_upsert_note_tag_relationships(dry, backend, note_id, tag_ids, resp) ==
    LET op == "upsert_note_tag_relationships"
        args == Args(<<>>, <<>>, note_id, <<>>, tag_ids)
    IN IF tag_ids = <<>> \/ dry
       THEN Returns(op, args, VNone, <<>>, NoResponse)
       ELSE IF backend = None
       THEN Raises(op, args, "RuntimeError", NotConfigured, <<>>, NoResponse)
       ELSE AfterCall(op, args,
                      Request("note_tags", "note_id,tag_id", PairsOf(note_id, tag_ids)),
                      resp, VNone)

\* ------------------------------------------------------------------------
\* resolve_notebook_id on the in-memory backend (FakeClient, FakeTable)
\* ------------------------------------------------------------------------
\* f"uuid-{len(table_rows) + 1}"
UuidIds == <<"uuid-1", "uuid-2", "uuid-3", "uuid-4", "uuid-5", "uuid-6">>

NotebookRow(id, title) == [id |-> id, title |-> title]

\* the stores the tests start from: empty, one notebook, one title twice
InitialNotebookRows ==
    { <<>>,
      << NotebookRow("uuid-1", "Personal") >>,
      << NotebookRow("uuid-1", "Archive"), NotebookRow("uuid-2", "Archive") >> }

\* variant: the insert is made without looking the title up
FakeSelect_finds_nothing(rows, title) == <<>>

\* FakeTable.execute, SELECT path: the rows that pass the eq filter
FakeSelect(rows, title) == SelectSeq(rows, LAMBDA r : r.title = title)

\* FakeTable.execute, INSERT path
FakeInsert(rows, title) == Append(rows, NotebookRow(UuidIds[Len(rows) + 1], title))

\* {"data": [...], "status": 200}
FakeResponse == Response("dict", <<200>>, Absent, "list", FALSE)

TitleArgs == {None, "", "Personal", "Work", "Archive"}

\* the outcome of the call and the rows of the table after it
SB_resolve_notebook_id(backend, rows, title) ==
    LET op == "resolve_notebook_id"
        args == Args(<<title>>, <<>>, None, <<>>, <<>>)
        select == Request("notebooks", None, <<"select", title>>)
        insert == Request("notebooks", None, <<"insert", title>>)
        found == FakeSelect(rows, title)
        after == FakeInsert(rows, title)
    IN IF ~Truthy(title)
       THEN [outcome |-> Returns(op, args, VNone, <<>>, NoResponse), rows |-> rows]
       ELSE IF backend = None
       THEN [outcome |-> Raises(op, args, "RuntimeError", NotConfigured, <<>>,
                                NoResponse),
             rows |-> rows]
       ELSE IF backend # FakeClient
       THEN \* DummyTableQuery and FailingTable have no select
            [outcome |-> Raises(op, args, "AttributeError", "select", <<>>,
                                CallRaisesAttributeError),
             rows |-> rows]
       ELSE IF extract_data(FakeResponse).raised
       THEN [outcome |-> Raises(op, args, "RuntimeError", BackendError, <<select>>,
                                FakeResponse),
             rows |-> rows]
       ELSE IF found # <<>>
       THEN [outcome |-> Returns(op, args, VStatus(found[1].id), <<select>>,
                                 FakeResponse),
             rows |-> rows]
       ELSE [outcome |-> Returns(op, args, VStatus(after[Len(after)].id),
                                 <<select, insert>>, FakeResponse),
             rows |-> after]

\* ------------------------------------------------------------------------
\* Client operations called directly, on one client object
\* ------------------------------------------------------------------------
TagA == UuidTag(<<"a">>)
TagB == UuidTag(<<"b">>)

TitleLists == {<<>>, <<"Work">>, <<"Personal">>, <<"Work", "Personal">>}
TagLists == { <<>>,
              << <<"a">> >>,
              << <<" ", "a">>, <<"a">>, <<>> >>,
              << <<"a">>, <<"b">>, <<"a">> >> }
NoteIdArgs == {"n1", "n2"}
BodyArgs == {<<>>, <<"x">>}
TagIdLists == {<<>>, <<TagA>>, <<TagA, TagA>>, <<TagA, TagB>>}

orchestrator == <<parsed_notes, faultsLeft, runs, pc, local, history>>

ClientInit ==
    /\ parsed_notes = <<>>
    /\ theClient \in {"mock", "supabase"}
    /\ \E c \in {None, FakeClient} \cup BackendClients, d \in BOOLEAN :
          /\ theClient = "mock" => c = None /\ ~d
          /\ sb_dry_run = SupabaseClient_init(c, d).dry_run
          /\ sb_client = SupabaseClient_init(c, d).client
    /\ faultsLeft = 0
    /\ existing_ids = {}
    /\ note_upserts = <<>>
    /\ notebook_upserts = EmptyDict
    /\ tag_upserts = EmptyDict
    /\ relationships = <<>>
    /\ runs = 0
    /\ pc = "idle"
    /\ dry_run = FALSE
    /\ client = "none"
    /\ idx = 0
    /\ report = IngestionReport
    /\ notebook_id_map = EmptyDict
    /\ tag_id_map = EmptyDict
    /\ note_tag_map = EmptyDict
    /\ calls = <<>>
    /\ raisedAt = <<>>
    /\ embeds = 0
    /\ fresh = TRUE
    /\ prev = NoPrev
    /\ nops = 0
    /\ last = NoOp
    /\ notebooks_rows \in (IF sb_client = FakeClient THEN InitialNotebookRows ELSE {<<>>})

\* one operation is called and leaves these rows in the backend's table
CalledOnStore(outcome, rows) ==
    /\ nops < MaxOps
    /\ nops' = nops + 1
    /\ last' = outcome
    /\ notebooks_rows' = rows
    /\ UNCHANGED <<theClient, sb_dry_run, sb_client, orchestrator>>

Called(outcome) == CalledOnStore(outcome, notebooks_rows)

MockUpsertNotebooks ==
    /\ theClient = "mock"
    /\ \E titles \in TitleLists :
          /\ notebook_upserts' = Mock_upsert_notebooks(notebook_upserts, titles)
          /\ Called(Returns("upsert_notebooks", Args(titles, <<>>, None, <<>>, <<>>),
                            VMap(notebook_upserts'), <<>>, NoResponse))
    /\ UNCHANGED <<existing_ids, note_upserts, tag_upserts, relationships>>

MockUpsertTags ==
    /\ theClient = "mock"
    /\ \E tags \in TagLists :
          /\ tag_upserts' = Mock_upsert_tags(tag_upserts, Range(tags))
          /\ Called(Returns("upsert_tags", Args(<<>>, tags, None, <<>>, <<>>),
                            VMap(tag_upserts'), <<>>, NoResponse))
    /\ UNCHANGED <<existing_ids, note_upserts, notebook_upserts, relationships>>

MockUpsertNoteWithEmbedding ==
    /\ theClient = "mock"
    /\ \E id \in NoteIdArgs, body \in BodyArgs :
          /\ note_upserts' = Append(note_upserts, [id |-> id, notebook_id |-> None])
          /\ existing_ids' = existing_ids \cup {id}
          /\ Called(Outcome("upsert_note_with_embedding",
                            Args(<<>>, <<>>, id, body, <<>>), "none", "",
                            VStatus(Mock_result(existing_ids, id)), <<>>,
                            NoResponse, id \in existing_ids))
    /\ UNCHANGED <<notebook_upserts, tag_upserts, relationships>>

MockUpsertNoteTagRelationships ==
    /\ theClient = "mock"
    /\ \E id \in NoteIdArgs, tag_ids \in TagIdLists :
          /\ relationships' = relationships \o PairsOf(id, tag_ids)
          /\ Called(Returns("upsert_note_tag_relationships",
                            Args(<<>>, <<>>, id, <<>>, tag_ids),
                            VStatus("ok"), <<>>, NoResponse))
    /\ UNCHANGED <<existing_ids, note_upserts, notebook_upserts, tag_upserts>>

SbUpsertNotebooks ==
    /\ theClient = "supabase"
    /\ \E titles \in TitleLists, resp \in Replies(sb_client, "name") :
          Called(SB_upsert_notebooks(sb_dry_run, sb_client, titles, resp))
    /\ UNCHANGED store

SbUpsertTags ==
    /\ theClient = "supabase"
    /\ \E tags \in TagLists, resp \in Replies(sb_client, "name") :
          Called(SB_upsert_tags(sb_dry_run, sb_client, tags, resp))
    /\ UNCHANGED store

SbUpsertNoteWithEmbedding ==
    /\ theClient = "supabase"
    /\ \E id \in NoteIdArgs, body \in BodyArgs, resp \in Replies(sb_client, None) :
          Called(SB_upsert_note_with_embedding(sb_dry_run, sb_client, id, body, resp))
    /\ UNCHANGED store

SbUpsertNoteTagRelationships ==
    /\ theClient = "supabase"
    /\ \E id \in NoteIdArgs, tag_ids \in TagIdLists,
          resp \in Replies(sb_client, "note_id,tag_id") :
          Called(SB_upsert_note_tag_relationships(sb_dry_run, sb_client, id,
                                                  tag_ids, resp))
    /\ UNCHANGED store

\* the SDK's own query builder is stood for by the in-memory backend
SbResolveNotebookId ==
    /\ theClient = "supabase" /\ sb_client # "Sdk"
    /\ \E title \in TitleArgs :
          LET r == SB_resolve_notebook_id(sb_client, notebooks_rows, title)
          IN CalledOnStore(r.outcome, r.rows)
    /\ UNCHANGED store

ClientNext ==
    \/ SbResolveNotebookId
    \/ MockUpsertNotebooks
    \/ MockUpsertTags
    \/ MockUpsertNoteWithEmbedding
    \/ MockUpsertNoteTagRelationships
    \/ SbUpsertNotebooks
    \/ SbUpsertTags
    \/ SbUpsertNoteWithEmbedding
    \/ SbUpsertNoteTagRelationships

ClientSpec == ClientInit /\ [][ClientNext]_vars

\* ------------------------------------------------------------------------
\* The tag resolver applied to batches of raw tag lists
\* ------------------------------------------------------------------------
MaxTagNotes == 2  \* longest batch drawn from RawTagLists

\* raw tag lists: the lists of the documented example (" a", "a ", "",
\* None and "b"), names that differ in case only, inner whitespace,
\* whitespace-only names, repeated names
RawTagLists ==
    { <<>>,
      << <<" ", "a">>, <<"a", " ">>, <<>>, NoneTag >>,
      << <<"b">> >>,
      << <<"A">>, <<"a">> >>,
      << <<" ">>, <<"a", " ", "b", " ">> >>,
      << <<"b">>, <<" ", "b">>, <<"b">> >>,
      << NoneTag >>,
      << <<" ", " ">>, <<"B">> >> }

TaggedNoteIds == <<"n1", "n2", "n3">>

TaggedNote(k, tags) == Note(TaggedNoteIds[k], <<"x">>, None, tags)

TagBatches ==
    UNION {{[k \in 1..n |-> TaggedNote(k, f[k])] : f \in [1..n -> RawTagLists]} :
              n \in 0..MaxTagNotes}

ResolverInit ==
    /\ parsed_notes \in TagBatches
    /\ theClient = "mock"
    /\ sb_dry_run = FALSE
    /\ sb_client = None
    /\ faultsLeft = 0
    /\ existing_ids = {}
    /\ note_upserts = <<>>
    /\ notebook_upserts = EmptyDict
    /\ tag_upserts = EmptyDict
    /\ relationships = <<>>
    /\ runs = 0
    /\ pc = "idle"
    /\ dry_run = FALSE
    /\ client = "none"
    /\ idx = 0
    /\ report = IngestionReport
    /\ notebook_id_map = EmptyDict
    /\ tag_id_map = EmptyDict
    /\ note_tag_map = EmptyDict
    /\ calls = <<>>
    /\ raisedAt = <<>>
    /\ embeds = 0
    /\ fresh = TRUE
    /\ prev = NoPrev
    /\ nops = 0
    /\ last = NoOp
    /\ notebooks_rows = <<>>

\* all_tags = extract_all_tags(parsed_notes)
ExtractAllTags ==
    /\ last = NoOp
    /\ last' = [op |-> "extract_all_tags", tags |-> extract_all_tags(parsed_notes)]
    /\ UNCHANGED <<inputs, faultsLeft, store, runs, pc, local, history,
                   sb_dry_run, sb_client, nops, notebooks_rows>>

ResolverNext == ExtractAllTags

ResolverSpec == ResolverInit /\ [][ResolverNext]_vars

\* ------------------------------------------------------------------------
\* Vocabulary of the properties
\* ------------------------------------------------------------------------
HasBody(note) == note.body # <<>>

RealRun == pc # "idle" /\ ~dry_run
DryRun == pc # "idle" /\ dry_run

OpsOf(cs) == [k \in DOMAIN cs |-> <<cs[k].op, cs[k].i>>]

NoteLevel(c) ==
    c.op \in {"upsert_note_with_embedding", "upsert_note_tag_relationships"}

\* stage at which note i raised in this invocation, "none" when it did not
StageOf(i) ==
    IF \E k \in DOMAIN raisedAt : raisedAt[k].i = i
    THEN (CHOOSE e \in Range(raisedAt) : e.i = i).stage
    ELSE "none"

BatchCalls == << <<"upsert_notebooks", 0>>, <<"upsert_tags", 0>> >>

PairOf(i) ==
    << <<"upsert_note_with_embedding", i>>, <<"upsert_note_tag_relationships", i>> >>

\* one pair per note with a non-empty body, in input order
RECURSIVE AllPairs(_, _)
AllPairs(notes, i) ==
    IF i > Len(notes) THEN <<>>
    ELSE (IF HasBody(notes[i]) THEN PairOf(i) ELSE <<>>) \o AllPairs(notes, i + 1)

\* the pair of a note stops where the note raised
RECURSIVE PairsUntilRaise(_, _)
PairsUntilRaise(notes, i) ==
    IF i > Len(notes) THEN <<>>
    ELSE (IF ~HasBody(notes[i]) \/ StageOf(i) \in {"embedding", "id"} THEN <<>>
          ELSE IF StageOf(i) = "upsert" THEN <<PairOf(i)[1]>>
          ELSE PairOf(i))
         \o PairsUntilRaise(notes, i + 1)

\* ------------------------------------------------------------------------
\* C1: in the real path the client sees one upsert_notebooks, then one
\* upsert_tags, then for each note with a non-empty body, in input order, one
\* upsert_note_with_embedding directly followed by one
\* upsert_note_tag_relationships for the same note, and nothing else.
\* ------------------------------------------------------------------------
\* C1 as stated: every note with a non-empty body gets the full pair
C1_EveryNoteGetsItsPair ==
    (RealRun /\ pc = "returned") =>
        OpsOf(calls) = BatchCalls \o AllPairs(parsed_notes, 1)

\* C1 amended: the order is notebooks, tags, then per note with a non-empty
\* body at most the pair, cut where that note raised: no call when the
\* embedding or the id lookup raised, the note upsert alone when it raised;
\* no note-level call is made before upsert_tags has returned.
C1_CallOrder ==
    RealRun =>
        /\ \A k \in DOMAIN calls :
              /\ (calls[k].op = "upsert_notebooks") <=> (k = 1)
              /\ (calls[k].op = "upsert_tags") <=> (k = 2)
              /\ NoteLevel(calls[k]) =>
                    k > 2 /\ ~calls[1].raised /\ ~calls[2].raised
        /\ pc = "returned" =>
              OpsOf(calls) = BatchCalls \o PairsUntilRaise(parsed_notes, 1)

C1_Witness ==
    /\ RealRun /\ pc = "returned"
    /\ Len(calls) = 5
    /\ \E i \in DOMAIN parsed_notes : StageOf(i) = "upsert"
    /\ \E i \in DOMAIN parsed_notes : HasBody(parsed_notes[i]) /\ StageOf(i) = "none"

\* ------------------------------------------------------------------------
\* C2: an exception raised while a note is processed in the real path does
\* not leave ingest_notes: exactly one {id, error} entry is appended for
\* that note, every later note is processed, and the notes that did not
\* raise are counted and persisted.
\* ------------------------------------------------------------------------
FailureEntries ==
    [k \in DOMAIN raisedAt |->
        [id |-> IdOrNone(parsed_notes[raisedAt[k].i]), error |-> raisedAt[k].error]]

Persisted(i) ==
    /\ \E k \in DOMAIN calls :
          /\ calls[k] = Call("upsert_note_with_embedding", i, parsed_notes[i].id,
                             calls[k].notebook_id, <<>>, FALSE)
          /\ k < Len(calls)
          /\ calls[k + 1].op = "upsert_note_tag_relationships"
          /\ calls[k + 1].i = i
    /\ client = "mock" => parsed_notes[i].id \in existing_ids

C2_FailureIsolation ==
    RealRun =>
        /\ raisedAt # <<>> => pc # "raised"
        /\ pc \in {"loop", "upsert", "relationships", "returned"} =>
              /\ report.failures = FailureEntries
              /\ \A j, k \in DOMAIN raisedAt : j < k => raisedAt[j].i < raisedAt[k].i
        /\ pc = "returned" =>
              /\ report.notes_processed = Len(parsed_notes)
              /\ \A i \in DOMAIN parsed_notes :
                    (HasBody(parsed_notes[i]) /\ StageOf(i) \in {"none", "relationships"})
                        => Persisted(i)
              /\ report.notes_inserted + report.notes_updated =
                    Cardinality({i \in DOMAIN parsed_notes :
                        HasBody(parsed_notes[i])
                        /\ StageOf(i) \in {"none", "relationships"}})

C2_Witness ==
    /\ RealRun /\ pc = "returned"
    /\ Len(report.failures) = 1
    /\ raisedAt[1].i = 1 /\ raisedAt[1].stage = "upsert"
    /\ Len(parsed_notes) = 2 /\ Persisted(2)

\* ------------------------------------------------------------------------
\* C3: the same batch run twice through the real path on one store: the
\* second run inserts nothing, updates what the first run inserted, and gets
\* the same notebook and tag id maps.
\* ------------------------------------------------------------------------
SecondCleanRealRun ==
    /\ RealRun /\ pc = "returned" /\ raisedAt = <<>>
    /\ prev.outcome = "returned" /\ ~prev.dry_run /\ prev.raised = 0

IsBlank(body) == Strip(body) = <<>>

C4_BlankBodySkipped ==
    /\ \A k \in DOMAIN calls :
          NoteLevel(calls[k]) => ~IsBlank(parsed_notes[calls[k].i].body)
    /\ pc = "returned" =>
          report.notes_skipped =
              Cardinality({i \in DOMAIN parsed_notes : IsBlank(parsed_notes[i].body)})

\* ------------------------------------------------------------------------
\* C5: the three-note scenario through the real path on a fresh store:
\* notes_processed 3, notes_skipped 1, notes_inserted 2, notes_updated 0,
\* tags_inserted 2, relationships_created 3, no failures.
\* ------------------------------------------------------------------------
ScenarioRun ==
    /\ parsed_notes = Scenario
    /\ RealRun /\ client = "mock" /\ fresh
    /\ pc = "returned" /\ raisedAt = <<>>

ScenarioReport(tags) ==
    [notes_processed |-> 3, notes_inserted |-> 2, notes_updated |-> 0,
     notes_skipped |-> 1, tags_inserted |-> tags, relationships_created |-> 3,
     failures |-> <<>>]

\* C5 as stated: only t1 and t2 are counted
C5_ScenarioTwoTags == ScenarioRun => report = ScenarioReport(2)

\* C5 amended: tags_inserted is 3, the tag of the skipped note n3 is
\* upserted and counted with t1 and t2; the other fields are as stated.
C5_ScenarioReport ==
    ScenarioRun =>
        /\ report = ScenarioReport(3)
        /\ DOMAIN tag_id_map = {<<"t", "1">>, <<"t", "2">>, <<"s", "k", "i", "p">>}

C5_Witness == ScenarioRun /\ report.relationships_created = 3

\* ------------------------------------------------------------------------
\* C6: upsert_note_tag_relationships is called for a note only right after
\* that note's upsert_note_with_embedding returned in the same run, and only
\* with tag ids of the map returned by the run's upsert_tags; a note whose
\* upsert raised gets no relationship call.
\* ------------------------------------------------------------------------
Values(d) == {d[k] : k \in DOMAIN d}

C6_RelationshipAfterUpsert ==
    RealRun =>
        \A k \in DOMAIN calls :
            /\ calls[k].op = "upsert_note_tag_relationships" =>
                  /\ k > 1
                  /\ calls[k - 1].op = "upsert_note_with_embedding"
                  /\ calls[k - 1].i = calls[k].i
                  /\ calls[k - 1].note_id = calls[k].note_id
                  /\ ~calls[k - 1].raised
                  /\ Range(calls[k].tag_ids) \subseteq Values(tag_id_map)
            /\ (calls[k].op = "upsert_note_with_embedding" /\ calls[k].raised) =>
                  \A j \in DOMAIN calls :
                      calls[j].op = "upsert_note_tag_relationships"
                          => calls[j].i # calls[k].i

C6_Witness ==
    /\ RealRun
    /\ \E k \in DOMAIN calls :
          calls[k].op = "upsert_note_with_embedding" /\ calls[k].raised
    /\ \E k \in DOMAIN calls :
          calls[k].op = "upsert_note_tag_relationships" /\ calls[k].tag_ids # <<>>

\* ------------------------------------------------------------------------
\* C7: with dry_run = True no step of ingest_notes changes the store of the
\* client that was passed in (notebooks, tags, notes, relationships).
\* ------------------------------------------------------------------------
C7_DryRunWritesNothing == [][DryRun => store' = store]_vars

\* ------------------------------------------------------------------------
\* C8: notes_processed, notes_skipped and tags_inserted of a dry-run report
\* equal those of the real-path report for the same batch on an empty store.
\* ------------------------------------------------------------------------
DryAndRealReports ==
    /\ pc = "returned" /\ prev.outcome = "returned"
    /\ dry_run # prev.dry_run
    /\ IF dry_run THEN prev.fresh ELSE fresh

C8_DryRealParity ==
    DryAndRealReports =>
        /\ report.notes_processed = prev.report.notes_processed
        /\ report.notes_skipped = prev.report.notes_skipped
        /\ report.tags_inserted = prev.report.tags_inserted

C8_Witness ==
    /\ DryAndRealReports
    /\ ~dry_run /\ client = "mock"
    /\ report.tags_inserted = 2
    /\ report.notes_skipped = 1
    /\ report.notes_processed = 2

\* ------------------------------------------------------------------------
\* C9: an exception of the batch-level upsert_notebooks or upsert_tags call
\* leaves ingest_notes: nothing is returned, failures stays empty and no
\* later client call is made (no upsert_tags after a failed upsert_notebooks,
\* no note-level call).
\* ------------------------------------------------------------------------
C9_BatchErrorsPropagate ==
    RealRun =>
        \A k \in DOMAIN calls :
            (calls[k].op \in {"upsert_notebooks", "upsert_tags"} /\ calls[k].raised) =>
                /\ pc = "raised"
                /\ k = Len(calls)
                /\ report.failures = <<>>
                /\ raisedAt = <<>>
                /\ report.notes_processed = 0
                /\ embeds = 0

C9_Witness ==
    /\ RealRun /\ pc = "raised"
    /\ Len(calls) = 2 /\ calls[2].op = "upsert_tags" /\ calls[2].raised
    /\ notebook_upserts # EmptyDict

\* ------------------------------------------------------------------------
\* C10: the real path invoked without a configured client raises at once and
\* the batch does not start: no note is counted as processed, no embedding
\* is generated and no note-level persistence call is made.
\* ------------------------------------------------------------------------
NotConfiguredClient == client = "none" \/ client = "supabase"

C10_NoClientFailsFast ==
    (RealRun /\ NotConfiguredClient) =>
        /\ report.notes_processed = 0
        /\ embeds = 0
        /\ \A k \in DOMAIN calls : ~NoteLevel(calls[k])

\* ------------------------------------------------------------------------
\* C11: an invocation of ingest_notes that has ended either returned a
\* report with notes_processed equal to the number of input notes, or raised
\* because a batch precondition was violated (no configured client, or a
\* failed upsert_notebooks / upsert_tags call); an exception raised while a
\* note is processed never ends the run.
\* ------------------------------------------------------------------------
BatchCallRaised ==
    /\ calls # <<>>
    /\ calls[Len(calls)].op \in {"upsert_notebooks", "upsert_tags"}
    /\ calls[Len(calls)].raised

PreconditionViolated == NotConfiguredClient \/ BatchCallRaised

C11_ReportOrPrecondition ==
    /\ pc = "returned" => report.notes_processed = Len(parsed_notes)
    /\ pc = "raised" => raisedAt = <<>> /\ PreconditionViolated

\* ------------------------------------------------------------------------
\* C12: a real-path run is interrupted between two client calls and the
\* same batch is then run again to completion on the same store: the store
\* (notebook rows and ids, tag rows and ids, note rows, relationship pairs)
\* is the one a single uninterrupted run of the batch leaves on the initial
\* store.
\* ------------------------------------------------------------------------
KeptNotes(notes) ==
    {i \in DOMAIN notes : ~IsSkipped(notes[i]) /\ notes[i].id # Missing}

\* relationship rows written by one uninterrupted run, in the order written
RECURSIVE SingleRunPairs(_, _, _)
SingleRunPairs(notes, i, id_map) ==
    IF i > Len(notes) THEN <<>>
    ELSE (IF i \in KeptNotes(notes)
          THEN PairsOf(notes[i].id,
                       Get(map_note_tags_to_ids(notes, id_map), notes[i].id, <<>>))
          ELSE <<>>)
         \o SingleRunPairs(notes, i + 1, id_map)

\* the store after one uninterrupted run of the batch on the empty store
SingleRunStore(notes) ==
    LET nbs == Mock_upsert_notebooks(EmptyDict, notebook_map(notes))
        tags == Mock_upsert_tags(EmptyDict, extract_all_tags(notes))
    IN [notebooks |-> nbs,
        tags |-> tags,
        note_ids |-> {notes[i].id : i \in KeptNotes(notes)},
        note_rows |-> {[id |-> notes[i].id,
                        notebook_id |-> ResolveNotebookId(notes[i], nbs)] :
                            i \in KeptNotes(notes)},
        relationships |-> SingleRunPairs(notes, 1, tags)]

StoreContents ==
    [notebooks |-> notebook_upserts,
     tags |-> tag_upserts,
     note_ids |-> existing_ids,
     note_rows |-> Range(note_upserts),
     relationships |-> relationships]

NoFaultInjected == faultsLeft = MaxFaults

\* the run that just returned started on the empty store
CleanSingleRun ==
    /\ RealRun /\ client = "mock" /\ pc = "returned"
    /\ fresh /\ NoFaultInjected

\* the run that just returned followed an interrupted run of the same batch
\* that had started on the empty store
RerunAfterInterrupt ==
    /\ RealRun /\ client = "mock" /\ pc = "returned"
    /\ prev.outcome = "interrupted" /\ prev.fresh
    /\ NoFaultInjected

C12_RerunEqualsSingleRun ==
    (CleanSingleRun \/ RerunAfterInterrupt) =>
        StoreContents = SingleRunStore(parsed_notes)

\* ------------------------------------------------------------------------
\* C13: whatever upsert_note_tag_relationships calls were made (the batch
\* run again, a note that lists the same tag twice), the relationship store
\* holds every (note_id, tag_id) pair at most once.
\* ------------------------------------------------------------------------
C13_PairsUnique ==
    \A j, k \in DOMAIN relationships :
        j # k => relationships[j] # relationships[k]

\* ------------------------------------------------------------------------
\* C14: over any sequence of upsert_notebooks calls on one store, a title
\* keeps the id it was first given, and two different titles never have the
\* same id.
\* ------------------------------------------------------------------------
C14_NotebookIdsStable ==
    [][/\ \A t \in DOMAIN notebook_upserts :
             /\ t \in DOMAIN notebook_upserts'
             /\ notebook_upserts'[t] = notebook_upserts[t]
       /\ \A t1, t2 \in DOMAIN notebook_upserts' :
             t1 # t2 => notebook_upserts'[t1] # notebook_upserts'[t2]]_vars

\* ------------------------------------------------------------------------
\* C15: in real mode upsert_note_with_embedding looks up whether a note
\* with the id exists before it writes, and returns "inserted" exactly when
\* none existed before the call and "updated" exactly when one did.
\* ------------------------------------------------------------------------
RealModeNoteUpsert ==
    /\ last.op = "upsert_note_with_embedding"
    /\ last.raised = "none"
    /\ theClient = "supabase" => ~sb_dry_run

C15_ReportsPriorExistence ==
    RealModeNoteUpsert =>
        /\ last.value.kind = "status"
        /\ last.value.status \in {"inserted", "updated"}
        /\ theClient = "mock" =>
              (last.value.status = "updated") <=> last.existed
        /\ theClient = "supabase" =>
              /\ Len(last.requests) = 2
              /\ last.requests[1].table = "notes"
              /\ last.requests[1].payload = <<last.args.id>>

\* ------------------------------------------------------------------------
\* C16: upsert_note_with_embedding called with an empty body raises
\* ValueError "body must be provided" whatever the client's configuration
\* (backend client present, absent, dry-run), without a backend call.
\* ------------------------------------------------------------------------
EmptyBodyUpsert ==
    /\ last.op = "upsert_note_with_embedding"
    /\ last.args.body = <<>>

C16_EmptyBodyIsValueError ==
    EmptyBodyUpsert =>
        /\ last.raised = "ValueError"
        /\ last.msg = BodyRequired
        /\ last.requests = <<>>

\* ------------------------------------------------------------------------
\* C17: a real-mode client operation that gets an error response from the
\* backend (a status outside 2xx, or an error attached to the response, as
\* a dict or as an object) raises RuntimeError; the response is never
\* handed back as data.
\* ------------------------------------------------------------------------
IsErrorResponse(resp) ==
    \/ resp.status # Absent /\ ~(resp.status[1] >= 200 /\ resp.status[1] < 300)
    \/ ErrorTruthy(resp)

GotErrorResponse ==
    /\ last.op # "none"
    /\ last.requests # <<>>
    /\ last.resp.shape \in {"dict", "attr"}
    /\ IsErrorResponse(last.resp)

C17_ErrorsBecomeRuntimeError == GotErrorResponse => last.raised = "RuntimeError"

\* ------------------------------------------------------------------------
\* C18: upsert_tags normalizes the names it is given before writing: what
\* it writes, and the keys of the map it returns, are exactly the distinct
\* trimmed non-empty names of its input.
\* ------------------------------------------------------------------------
NormalizedNames(tags) == {Strip(t) : t \in Range(tags)} \ {<<>>}

IsNormalized(name) == name # <<>> /\ Strip(name) = name

C18_UpsertTagsNormalizes ==
    (last.op = "upsert_tags" /\ last.raised = "none") =>
        /\ last.requests # <<>> =>
              last.requests[1].payload = NormalizedNames(last.args.tags)
        /\ (theClient = "supabase" /\ sb_dry_run) =>
              DOMAIN last.value.map = NormalizedNames(last.args.tags)
        /\ theClient = "mock" =>
              /\ NormalizedNames(last.args.tags) \subseteq DOMAIN tag_upserts
              /\ \A name \in DOMAIN tag_upserts : IsNormalized(name)

\* ------------------------------------------------------------------------
\* C19: in a dry run that returns, tags_inserted is the number of distinct
\* normalized tag names of the whole batch, and relationships_created is
\* the number of raw tag entries of all notes of the batch, the notes
\* skipped for an empty body included.
\* ------------------------------------------------------------------------
RawTagEntries(notes) ==
    UNION {{<<i, j>> : j \in DOMAIN notes[i].tags} : i \in DOMAIN notes}

BatchTagNames(notes) ==
    {Strip(notes[e[1]].tags[e[2]]) :
        e \in {x \in RawTagEntries(notes) : notes[x[1]].tags[x[2]] # NoneTag}}
    \ {<<>>}

DryRunReturned == dry_run /\ pc = "returned"

C19_DryRunTagCounts ==
    DryRunReturned =>
        /\ report.tags_inserted = Cardinality(BatchTagNames(parsed_notes))
        /\ report.relationships_created = Cardinality(RawTagEntries(parsed_notes))

C19_Witness ==
    /\ DryRunReturned
    /\ \E i \in DOMAIN parsed_notes :
          ~HasBody(parsed_notes[i]) /\ parsed_notes[i].tags # <<>>
    /\ \E e \in RawTagEntries(parsed_notes) :
          parsed_notes[e[1]].tags[e[2]] \in {NoneTag, <<>>}
    /\ report.tags_inserted < report.relationships_created

\* ------------------------------------------------------------------------
\* C20: a dry run that returns reports no update whatever the client
\* answered: notes_updated = 0, notes_inserted is the number of notes with
\* a non-empty body, notes_inserted + notes_skipped = notes_processed, and
\* the failures list is empty.
\* ------------------------------------------------------------------------
NotesWithBody(notes) == {i \in DOMAIN notes : HasBody(notes[i])}

C20_DryRunCountsInsertsOnly ==
    DryRunReturned =>
        /\ report.notes_updated = 0
        /\ report.notes_inserted = Cardinality(NotesWithBody(parsed_notes))
        /\ report.notes_inserted + report.notes_skipped = report.notes_processed
        /\ report.failures = <<>>

\* the client answered "updated" for a note of this dry run: the id it was
\* given had been stored before, by this run or by an earlier one
ClientAnsweredUpdated ==
    \E k \in DOMAIN calls :
        /\ calls[k].op = "upsert_note_with_embedding" /\ ~calls[k].raised
        /\ Cardinality({j \in DOMAIN note_upserts :
                           note_upserts[j].id = calls[k].note_id}) > 1

C20_Witness ==
    /\ DryRunReturned
    /\ client = "mock"
    /\ ClientAnsweredUpdated
    /\ \E i \in DOMAIN parsed_notes : ~HasBody(parsed_notes[i])

\* ------------------------------------------------------------------------
\* C21: map_note_tags_to_ids associates every note that has a non-empty id
\* with the ids of its normalized tags found in the tag id map, in the
\* note's tag order (the empty list when the note has no tag or no mapped
\* tag), and leaves out the notes that lack an id.
\* ------------------------------------------------------------------------
MapComputed == RealRun /\ pc \in {"loop", "upsert", "relationships", "returned"}

IsMappedTag(t, m) == t # NoneTag /\ Strip(t) # <<>> /\ Strip(t) \in DOMAIN m

MappedTagIds(note, m) ==
    LET kept == SelectSeq(note.tags, LAMBDA t : IsMappedTag(t, m))
    IN [k \in DOMAIN kept |-> m[Strip(kept[k])]]

\* the note is the last one of the batch that carries its id
LastWithItsId(notes, i) == \A j \in DOMAIN notes : j > i => notes[j].id # notes[i].id

C21_EveryNoteWithIdIsMapped ==
    MapComputed =>
        /\ \A i \in DOMAIN parsed_notes :
              (Truthy(parsed_notes[i].id) /\ LastWithItsId(parsed_notes, i)) =>
                 /\ parsed_notes[i].id \in DOMAIN note_tag_map
                 /\ note_tag_map[parsed_notes[i].id] =
                       MappedTagIds(parsed_notes[i], tag_id_map)
        /\ \A id \in DOMAIN note_tag_map :
              \E i \in DOMAIN parsed_notes : parsed_notes[i].id = id /\ Truthy(id)

\* ------------------------------------------------------------------------
\* C22: the notebook map that the real path passes to upsert_notebooks is
\* the notebook resolver's result for the batch: one entry per distinct
\* label found under the direct field or, failing that, under the metadata
\* field, in first-seen order.  The recording client shows what it was
\* passed: the k-th title of the map is given the id nb<k>.
\* ------------------------------------------------------------------------
NotebooksUpserted ==
    /\ RealRun /\ client = "mock"
    /\ \E k \in DOMAIN calls : calls[k].op = "upsert_notebooks" /\ ~calls[k].raised

C22_NotebookMapIsResolverResult ==
    NotebooksUpserted =>
        LET resolved == resolve_notebook_ids(parsed_notes)
        IN /\ \A k \in DOMAIN resolved :
                 /\ resolved[k] \in DOMAIN notebook_id_map
                 /\ notebook_id_map[resolved[k]] = NbIds[k]
           /\ Cardinality({notebook_id_map[t] : t \in DOMAIN notebook_id_map})
                 = Len(resolved)

\* ------------------------------------------------------------------------
\* C23: extract_all_tags returns exactly the set of trimmed tag strings of
\* all notes of the batch, without None, empty and whitespace-only tags,
\* case preserved and duplicates collapsed; tags " a", "a ", "", None on
\* one note and "b" on another give {"a", "b"}; normalizing a returned
\* name gives the same name.
\* ------------------------------------------------------------------------
ExampleTagBatch ==
    << TaggedNote(1, << <<" ", "a">>, <<"a", " ">>, <<>>, NoneTag >>),
       TaggedNote(2, << <<"b">> >>) >>

TagsExtracted == last.op = "extract_all_tags"

C23_ExtractAllTags ==
    TagsExtracted =>
        /\ last.tags = BatchTagNames(parsed_notes)
        /\ \A t \in last.tags : t # NoneTag /\ t # <<>> /\ Strip(t) = t
        /\ parsed_notes = ExampleTagBatch => last.tags = {<<"a">>, <<"b">>}

C23_Witness ==
    /\ TagsExtracted
    /\ parsed_notes = ExampleTagBatch
    /\ Cardinality(last.tags) = 2

\* ------------------------------------------------------------------------
\* C24: in the real path every upsert of a note carries as notebook_id the
\* id that the run's upsert_notebooks result gives for the note's notebook
\* label, None when the note has no label; a note that is not skipped and
\* raises neither at its embedding nor at its id is upserted; with the
\* recording client the ids follow the first-seen order of the labels in
\* the input (nb1 for the first label, nb2 for the second), not the
\* alphabetical order.
\* ------------------------------------------------------------------------
NoteUpsertCalls == {k \in DOMAIN calls : calls[k].op = "upsert_note_with_embedding"}

FirstIndexOf(label) ==
    CHOOSE i \in DOMAIN parsed_notes :
        /\ parsed_notes[i].notebook = label
        /\ \A j \in 1..(i - 1) : parsed_notes[j].notebook # label

Labels == {parsed_notes[i].notebook : i \in DOMAIN parsed_notes} \ {None, Missing, ""}

\* 1 for the label seen first in the input, 2 for the next new label, ...
FirstSeenRank(label) ==
    Cardinality({l \in Labels : FirstIndexOf(l) <= FirstIndexOf(label)})

C24_NotebookIdFollowsFirstSeenOrder ==
    RealRun =>
        /\ \A k \in NoteUpsertCalls :
              LET note == parsed_notes[calls[k].i]
              IN /\ HasBody(note)
                 /\ note.notebook \in Labels =>
                       /\ note.notebook \in DOMAIN notebook_id_map
                       /\ calls[k].notebook_id = notebook_id_map[note.notebook]
                       /\ client = "mock" =>
                             calls[k].notebook_id = NbIds[FirstSeenRank(note.notebook)]
                 /\ note.notebook \notin Labels => calls[k].notebook_id = None
        /\ pc = "returned" =>
              \A i \in DOMAIN parsed_notes :
                 (HasBody(parsed_notes[i]) /\ StageOf(i) \notin {"embedding", "id"}) =>
                    \E k \in NoteUpsertCalls : calls[k].i = i

C24_Witness ==
    /\ RealRun /\ pc = "returned" /\ client = "mock"
    /\ \E k, l \in NoteUpsertCalls :
          /\ k < l
          /\ parsed_notes[calls[k].i].notebook = "Work"
          /\ calls[k].notebook_id = "nb1"
          /\ parsed_notes[calls[l].i].notebook = "Personal"
          /\ calls[l].notebook_id = "nb2"

\* ------------------------------------------------------------------------
\* C25: sequential resolve_notebook_id calls on a store never give a title
\* a second row: a call with a title that has a row returns the id of the
\* first such row and inserts nothing, a call with a new title inserts
\* exactly one row and returns its id, and a call with a missing or empty
\* title returns None and leaves the store alone.
\* ------------------------------------------------------------------------
RowsTitled(rows, title) == {k \in DOMAIN rows : rows[k].title = title}

ResolveStep ==
    /\ sb_client = FakeClient
    /\ nops' = nops + 1
    /\ last'.op = "resolve_notebook_id"

C25_ResolveIsLookupOrInsert ==
    [][ResolveStep =>
        LET title == last'.args.titles[1]
            before == notebooks_rows
            after == notebooks_rows'
            matching == RowsTitled(before, title)
        IN /\ last'.raised = "none"
           /\ ~Truthy(title) =>
                 /\ after = before
                 /\ last'.value = VNone
                 /\ last'.requests = <<>>
           /\ (Truthy(title) /\ matching # {}) =>
                 /\ after = before
                 /\ \E k \in matching :
                       /\ \A j \in matching : k <= j
                       /\ last'.value = VStatus(before[k].id)
           /\ (Truthy(title) /\ matching = {}) =>
                 /\ Len(after) = Len(before) + 1
                 /\ SubSeq(after, 1, Len(before)) = before
                 /\ after[Len(after)].title = title
                 /\ last'.value = VStatus(after[Len(after)].id)
                 /\ \A k \in DOMAIN before : before[k].id # after[Len(after)].id
           /\ \A t \in TitleArgs :
                 Cardinality(RowsTitled(after, t)) <= 1
                    \/ Cardinality(RowsTitled(after, t)) = Cardinality(RowsTitled(before, t))
    ]_vars

C25_Witness ==
    /\ sb_client = FakeClient
    /\ last.op = "resolve_notebook_id" /\ last.raised = "none"
    /\ Len(last.requests) = 1
    /\ notebooks_rows = << NotebookRow("uuid-1", "Work") >>
    /\ last.value = VStatus("uuid-1")

\* ------------------------------------------------------------------------
\* C26: a SupabaseClient in dry-run mode (dry_run=True passed, or a
\* DummyClient injected) makes no call on the backend client and no
\* existence check in upsert_notebooks, upsert_tags,
\* upsert_note_with_embedding and upsert_note_tag_relationships, after any
\* sequence of such operations, and what each gives back depends on its
\* arguments only.
\* ------------------------------------------------------------------------
UpsertOps ==
    {"upsert_notebooks", "upsert_tags", "upsert_note_with_embedding",
     "upsert_note_tag_relationships"}

InDryRunMode == theClient = "supabase" /\ (sb_dry_run \/ sb_client = "DummyClient")

\* what the operation gives back in dry-run mode, from its arguments alone
DryRunValue(op, args) ==
    IF op = "upsert_notebooks"
    THEN VMap([n \in Range(args.titles) |-> <<"dry-notebook-", n>>])
    ELSE IF op = "upsert_tags"
    THEN VMap([t \in Range(args.tags) |-> <<"dry-tag-", t>>])
    ELSE IF op = "upsert_note_with_embedding"
    THEN Value("list", EmptyDict, "")
    ELSE VNone

C26_DryRunMakesNoBackendCall ==
    (InDryRunMode /\ last.op \in UpsertOps) =>
        /\ last.requests = <<>>
        /\ last.resp = NoResponse
        /\ ~last.existed
        /\ notebooks_rows = <<>>
        /\ IF last.op = "upsert_note_with_embedding" /\ last.args.body = <<>>
           THEN last.raised = "ValueError"
           ELSE last.raised = "none" /\ last.value = DryRunValue(last.op, last.args)

C26_Witness ==
    /\ InDryRunMode /\ sb_client = "DummyClient"
    /\ nops = MaxOps
    /\ last.op = "upsert_tags" /\ last.raised = "none"
    /\ DOMAIN last.value.map # {}

\* ------------------------------------------------------------------------
\* C27: _extract_data has two outcomes for every response shape: it raises
\* RuntimeError or it returns a list of rows (the empty list for an absent
\* or null data field, a one-element list for a single row); it never
\* returns a value that is not a list.
\* ------------------------------------------------------------------------
GotResponse == last.op # "none" /\ last.resp.shape \in {"dict", "attr"}

C27_ExtractDataReturnsList ==
    GotResponse =>
        /\ extract_data(last.resp).raised \/ extract_data(last.resp).kind = "list"
        /\ (last.op = "upsert_note_with_embedding" /\ last.raised = "none") =>
              last.value.kind = "list"

\* ------------------------------------------------------------------------
\* C28: when the real path returns, notes_processed is the number of input
\* notes and inserted + updated + skipped + len(failures) exceeds it by
\* exactly the number of notes whose upsert succeeded and whose
\* relationship upsert then raised; such a note is counted as
\* inserted/updated and as a failure and adds nothing to
\* relationships_created; every other note is counted once.
\* ------------------------------------------------------------------------
RealRunReturned == RealRun /\ pc = "returned"

NotesRaisedAt(stages) == {i \in DOMAIN parsed_notes : StageOf(i) \in stages}

\* the relationship calls of the invocation that did not raise
RelationshipCallsMade ==
    {k \in DOMAIN calls :
        calls[k].op = "upsert_note_tag_relationships" /\ ~calls[k].raised}

RelatedTagEntries ==
    UNION {{<<k, j>> : j \in DOMAIN calls[k].tag_ids} : k \in RelationshipCallsMade}

C28_CountersOnReturn ==
    RealRunReturned =>
        LET twice == NotesRaisedAt({"relationships"})
            upserted == {i \in DOMAIN parsed_notes :
                           HasBody(parsed_notes[i])
                           /\ StageOf(i) \in {"none", "relationships"}}
        IN /\ report.notes_processed = Len(parsed_notes)
           /\ report.notes_inserted + report.notes_updated + report.notes_skipped
                 + Len(report.failures)
                 = report.notes_processed + Cardinality(twice)
           /\ report.notes_inserted + report.notes_updated = Cardinality(upserted)
           /\ report.notes_skipped =
                 Cardinality({i \in DOMAIN parsed_notes : ~HasBody(parsed_notes[i])})
           /\ Len(report.failures) =
                 Cardinality(NotesRaisedAt({"embedding", "id", "upsert", "relationships"}))
           /\ \A i \in twice :
                 ~\E k \in RelationshipCallsMade : calls[k].i = i
           /\ report.relationships_created = Cardinality(RelatedTagEntries)

C28_Witness ==
    /\ RealRunReturned
    /\ \E i \in NotesRaisedAt({"relationships"}) : parsed_notes[i].tags # <<>>
    /\ \E i \in DOMAIN parsed_notes :
          HasBody(parsed_notes[i]) /\ StageOf(i) = "none"
    /\ report.relationships_created > 0

BatchLabels ==
    {parsed_notes[i].notebook : i \in DOMAIN parsed_notes} \ {None, Missing, ""}

TagsUpserted ==
    /\ RealRun /\ client = "mock"
    /\ \E k \in DOMAIN calls : calls[k].op = "upsert_tags" /\ ~calls[k].raised

C30_BatchStagesUseEveryNote ==
    /\ NotebooksUpserted =>
          /\ BatchLabels \subseteq DOMAIN notebook_upserts
          /\ DOMAIN notebook_id_map = DOMAIN notebook_upserts
    /\ TagsUpserted =>
          /\ BatchTagNames(parsed_notes) \subseteq DOMAIN tag_upserts
          /\ report.tags_inserted = Cardinality(DOMAIN tag_upserts)
          /\ report.tags_inserted >= Cardinality(BatchTagNames(parsed_notes))

\* a notebook and a tag are stored that no stored note refers to
C30_Witness ==
    /\ RealRunReturned /\ client = "mock"
    /\ \E i \in DOMAIN parsed_notes :
          /\ ~HasBody(parsed_notes[i])
          /\ \E t \in BatchTagNames(<<parsed_notes[i]>>) :
                /\ t \in DOMAIN tag_upserts
                /\ \A k \in DOMAIN relationships :
                      relationships[k].tag_id # tag_upserts[t]
          /\ parsed_notes[i].notebook \in DOMAIN notebook_upserts
          /\ \A k \in DOMAIN note_upserts :
                note_upserts[k].notebook_id # notebook_upserts[parsed_notes[i].notebook]
    /\ report.tags_inserted > 0

=============================================================================
